---------------------------- MODULE Spec2Model ----------------------------
(***************************************************************************)
(* Model of helpers/convert_to_classification.py: the batch converter of a *)
(* YOLO detection dataset into class folders with a train/val split.       *)
(*                                                                         *)
(* Text is modelled as a sequence of one-character strings, so that        *)
(* strip, split, splitext, lower, replace and the f-string of the          *)
(* collision suffix are computed the way the code computes them.           *)
(* A path inside a tree is a pair <<directory, file name>>; the directory  *)
(* "" is the root of the tree.  An output path is a triple                 *)
(* <<split, class name, file name>> below the output root.                 *)
(*                                                                         *)
(* Environment assumptions: the file system is case-sensitive, the output  *)
(* root lies outside the images and labels trees, nothing else writes to   *)
(* any of the trees during the run, and the output tree is writable.       *)
(* The validation fraction is an exact rational val_split / ValDen; the    *)
(* rounding of the binary floating-point product is not modelled.          *)
(***************************************************************************)
EXTENDS Integers, Sequences, FiniteSets, TLC

VARIABLES
    pc,             \* position of main(): load, scan, select, split, write, done, aborted
    images,         \* files under --images-dir: set of <<dir, file name>>
    labels,         \* files under --labels-dir: set of <<dir, file name>>
    classes,        \* the --classes argument and the file it names
    has_yaml,       \* whether "import yaml" succeeds
    val_split,      \* --val-split, as the numerator of val_split / ValDen
    move,           \* --move
    force_first,    \* --force-first
    out,            \* output tree: output path -> origin of the content
    out0,           \* the output tree as it was before the run
    class_map,      \* result of load_class_mapping
    warned,         \* whether load_class_mapping printed a [WARN] line
    label_files,    \* list built by the scan
    lf,             \* index of the label file the selection loop is at
    lines,          \* content of the label file read last
    class_ids,      \* result of parse_label_file for it
    img,            \* result of find_image_for_label for it
    samples,        \* list of <<image path, class name>>
    skipped,
    multi,
    missing_image,
    by_class,       \* class name -> list of image paths
    class_order,    \* insertion order of the keys of by_class
    ci,             \* index of the class the write loop is at
    train_imgs,
    val_imgs,
    todo,           \* copies of the current class still to do: <<split, image path>>
    dest_path,      \* value returned by the last copy_image_to
    placed,         \* log of the writes done: <<split, class name, image path, dest file name>>
    total_copied

vars == <<pc, images, labels, classes, has_yaml, val_split, move, force_first,
          out, out0, class_map, warned, label_files, lf, lines, class_ids, img,
          samples, skipped, multi, missing_image, by_class, class_order, ci,
          train_imgs, val_imgs, todo, dest_path, placed, total_copied>>

---------------------------------------------------------------------------
(* Text helpers: the str and os.path operations the code uses.             *)

WS == {" ", "\t", "\n"}

RECURSIVE LStrip(_)
LStrip(s) ==
    IF s = <<>> THEN s
    ELSE IF Head(s) \in WS THEN LStrip(Tail(s)) ELSE s

RECURSIVE RStrip(_)
RStrip(s) ==
    IF s = <<>> THEN s
    ELSE IF s[Len(s)] \in WS THEN RStrip(SubSeq(s, 1, Len(s) - 1)) ELSE s

\* str.strip()
Strip(s) == RStrip(LStrip(s))

RECURSIVE LStripChars(_, _)
LStripChars(s, cs) ==
    IF s = <<>> THEN s
    ELSE IF Head(s) \in cs THEN LStripChars(Tail(s), cs) ELSE s

RECURSIVE RStripChars(_, _)
RStripChars(s, cs) ==
    IF s = <<>> THEN s
    ELSE IF s[Len(s)] \in cs THEN RStripChars(SubSeq(s, 1, Len(s) - 1), cs) ELSE s

\* str.strip(chars)
StripChars(s, cs) == RStripChars(LStripChars(s, cs), cs)

\* str.rstrip('\n')
RStripNewline(s) == RStripChars(s, {"\n"})

\* the first whitespace-delimited token of s and what follows it
RECURSIVE TakeToken(_)
TakeToken(s) ==
    IF s = <<>> \/ Head(s) \in WS THEN <<>>
    ELSE <<Head(s)>> \o TakeToken(Tail(s))

\* str.split(): the whitespace-delimited tokens
RECURSIVE Split(_)
Split(s) ==
    LET t == LStrip(s) IN
    IF t = <<>> THEN <<>>
    ELSE LET tok == TakeToken(t) IN
         <<tok>> \o Split(SubSeq(t, Len(tok) + 1, Len(t)))

\* str.split(sep): the pieces between the occurrences of the character sep
RECURSIVE SplitOn(_, _)
SplitOn(s, sep) ==
    IF \A i \in 1..Len(s) : s[i] # sep THEN <<s>>
    ELSE LET k == CHOOSE i \in 1..Len(s) :
                      s[i] = sep /\ \A j \in 1..(i - 1) : s[j] # sep
         IN <<SubSeq(s, 1, k - 1)>> \o SplitOn(SubSeq(s, k + 1, Len(s)), sep)

\* str.split(sep, 1): cut at the first occurrence of sep (which s holds)
SplitOnce(s, sep) ==
    LET k == CHOOSE i \in 1..Len(s) :
                 s[i] = sep /\ \A j \in 1..(i - 1) : s[j] # sep
    IN <<SubSeq(s, 1, k - 1), SubSeq(s, k + 1, Len(s))>>

\* str.startswith / str.endswith
StartsWith(s, p) == Len(s) >= Len(p) /\ SubSeq(s, 1, Len(p)) = p

EndsWith(s, p) == Len(s) >= Len(p) /\ SubSeq(s, Len(s) - Len(p) + 1, Len(s)) = p

LowerChar(c) ==
    CASE c = "J" -> "j" [] c = "P" -> "p" [] c = "G" -> "g"
      [] c = "T" -> "t" [] c = "X" -> "x" [] c = "N" -> "n"
      [] OTHER -> c

\* str.lower()
Lower(s) == [i \in 1..Len(s) |-> LowerChar(s[i])]

\* str.replace(a, b) for single characters
Replace(s, a, b) == [i \in 1..Len(s) |-> IF s[i] = a THEN b ELSE s[i]]

\* os.path.splitext of a file name: the extension starts at the last dot,
\* unless only dots precede that dot
SplitExt(f) ==
    IF \A i \in 1..Len(f) : f[i] # "."
    THEN <<f, <<>>>>
    ELSE LET d == CHOOSE i \in 1..Len(f) :
                      f[i] = "." /\ \A j \in (i + 1)..Len(f) : f[j] # "."
         IN IF \E j \in 1..(d - 1) : f[j] # "."
            THEN <<SubSeq(f, 1, d - 1), SubSeq(f, d, Len(f))>>
            ELSE <<f, <<>>>>

Digit(d) ==
    CASE d = 0 -> "0" [] d = 1 -> "1" [] d = 2 -> "2" [] d = 3 -> "3"
      [] d = 4 -> "4" [] d = 5 -> "5" [] d = 6 -> "6" [] d = 7 -> "7"
      [] d = 8 -> "8" [] d = 9 -> "9"

\* str(i) for a natural number i
RECURSIVE Str(_)
Str(i) == IF i < 10 THEN <<Digit(i)>> ELSE Str(i \div 10) \o <<Digit(i % 10)>>

---------------------------------------------------------------------------
(* Bounds and the inputs the runs are drawn from.                          *)

\* --val-split ranges over 0/ValDen, 1/ValDen, ..., ValDen/ValDen
ValDen == 2

\* most label files in the labels tree, in the runs of the write phase
MaxLabels == 3

\* most files in the labels tree, in the runs of the selection phase
MaxScan == 2

\* most image files in the images tree
MaxImages == 2

\* most files in the output tree before the run
MaxOut == 2

photo_jpg == <<"p", "h", "o", "t", "o", ".", "j", "p", "g">>

photo_JPG == <<"p", "h", "o", "t", "o", ".", "J", "P", "G">>

photo_gif == <<"p", "h", "o", "t", "o", ".", "g", "i", "f">>

photo_1_jpg == <<"p", "h", "o", "t", "o", "_", "1", ".", "j", "p", "g">>

q_png == <<"q", ".", "p", "n", "g">>

photo_txt == <<"p", "h", "o", "t", "o", ".", "t", "x", "t">>

q_TXT == <<"q", ".", "T", "X", "T">>

notes_md == <<"n", "o", "t", "e", "s", ".", "m", "d">>

cat == <<"c", "a", "t">>

big_dog == <<"b", "i", "g", " ", "d", "o", "g">>

\* contents of a label file, as the lines that iterating the file yields
LabelContents ==
    { <<>>,
      << <<" ", "\n">>, <<"\n">> >>,
      << <<"0", " ", "5", "\n">> >>,
      << <<"\n">>, <<" ", "1", "\t", "5">> >>,
      << <<"2", "\n">> >>,
      << <<"\n">>, <<"1", " ", "5", "\n">>, <<" ", "\n">>, <<"0", " ", "5", "\n">> >> }

\* what yaml.safe_load returned: tag is "raise" (the text is rejected),
\* "empty" (a falsy document), "nodict" (a non-empty list or scalar) or
\* "dict"; names.tag is "absent", "scalar", "list" or "dict"; names.items
\* lists the entries as <<key, value>>, a key being <<"int", n>>,
\* <<"str", s>> or, in a list, <<"pos", i>>
Parsed(tag, ntag, items) == [tag |-> tag, names |-> [tag |-> ntag, items |-> items]]

\* the --classes argument: whether it is given, whether it names a file,
\* the file's name, whether open() and decoding succeed, the lines of the
\* file and what yaml.safe_load makes of it
ClassesFile(kind, given, isfile, name, readable, ls, parsed) ==
    [kind |-> kind, given |-> given, isfile |-> isfile, name |-> name,
     readable |-> readable, lines |-> ls, parsed |-> parsed]

NoParsed == Parsed("raise", "absent", <<>>)

c_txt == <<"c", ".", "t", "x", "t">>

c_TXT == <<"c", ".", "T", "X", "T">>

c_json == <<"c", ".", "j", "s", "o", "n">>

d_yaml == <<"d", ".", "y", "a", "m", "l">>

d_YML == <<"d", ".", "Y", "M", "L">>

NoPath == ClassesFile("nopath", FALSE, FALSE, <<>>, FALSE, <<>>, NoParsed)

MissingFile == ClassesFile("missing", TRUE, FALSE, c_txt, FALSE, <<>>, NoParsed)

\* {"0": "cat"}
UnknownExt ==
    ClassesFile("unknown_ext", TRUE, TRUE, c_json, TRUE,
                << <<"{", "\"", "0", "\"", ":", " ", "\"", "c", "a", "t", "\"", "}", "\n">> >>, NoParsed)

TxtUnreadable == ClassesFile("unreadable", TRUE, TRUE, c_txt, FALSE, <<>>, NoParsed)

\* cat / (blank) / big dog
TxtNames ==
    ClassesFile("ok", TRUE, TRUE, c_TXT, TRUE,
                << <<"c", "a", "t", "\n">>, <<"\n">>, <<" ", "b", "i", "g", " ", "d", "o", "g", " ", "\n">> >>, NoParsed)

YamlUnreadable == ClassesFile("unreadable", TRUE, TRUE, d_yaml, FALSE, <<>>, NoParsed)

\* names: [cat      (a flow sequence that is never closed)
YamlSyntaxError ==
    ClassesFile("malformed", TRUE, TRUE, d_yaml, TRUE,
                << <<"n", "a", "m", "e", "s", ":", " ", "[", "c", "a", "t", "\n">> >>, Parsed("raise", "absent", <<>>))

\* - cat            (the document is a list, not a mapping)
YamlTopList ==
    ClassesFile("malformed", TRUE, TRUE, d_yaml, TRUE,
                << <<"-", " ", "c", "a", "t", "\n">> >>, Parsed("nodict", "absent", <<>>))

\* an empty file
YamlEmpty ==
    ClassesFile("malformed", TRUE, TRUE, d_YML, TRUE, <<>>, Parsed("empty", "absent", <<>>))

\* nc: 2            (no names field)
YamlNoNames ==
    ClassesFile("malformed", TRUE, TRUE, d_yaml, TRUE,
                << <<"n", "c", ":", " ", "2", "\n">> >>, Parsed("dict", "absent", <<>>))

\* names: 5         (names is neither a list nor a mapping)
YamlScalarNames ==
    ClassesFile("malformed", TRUE, TRUE, d_yaml, TRUE,
                << <<"n", "a", "m", "e", "s", ":", " ", "5", "\n">> >>, Parsed("dict", "scalar", <<>>))

\* names: / 0: cat / 1: big dog
YamlNames ==
    ClassesFile("ok", TRUE, TRUE, d_yaml, TRUE,
                << <<"n", "a", "m", "e", "s", ":", "\n">>, <<" ", " ", "0", ":", " ", "c", "a", "t", "\n">>, <<" ", " ", "1", ":", " ", "b", "i", "g", " ", "d", "o", "g", "\n">> >>,
                Parsed("dict", "dict", << <<<<"int", 0>>, cat>>, <<<<"int", 1>>, big_dog>> >>))

\* most entries of the names field of a generated data.yaml
MaxNames == 2

\* top-level fields that a data.yaml holds besides names
nc_line == <<"n", "c", ":", " ", "2", "\n">>

train_line == <<"t", "r", "a", "i", "n", ":", " ", "x", "\n">>

FieldSeqs == { <<>>, <<nc_line>>, <<train_line>>, <<nc_line, train_line>> }

\* the sequences over S of lengths lo..hi
SeqsOf(S, lo, hi) == UNION { [1..n -> S] : n \in lo..hi }

\* a data.yaml whose names field is in one of the three documented forms:
\* the fields before names, the form, the entries, the fields after names
YamlDocs ==
    { [pre |-> a, form |-> f, entries |-> e, post |-> b] :
        a \in FieldSeqs, b \in FieldSeqs,
        f \in {"inline", "dash", "map"}, e \in SeqsOf({cat, big_dog}, 0, MaxNames) }
    \ { d \in [pre : FieldSeqs, form : {"dash", "map"}, entries : {<<>>}, post : FieldSeqs] : TRUE }

\* a, b, c
RECURSIVE Join(_)
Join(items) ==
    IF items = <<>> THEN <<>>
    ELSE IF Len(items) = 1 THEN items[1]
    ELSE items[1] \o <<",", " ">> \o Join(Tail(items))

\* the text of the document, line by line
Render(doc) ==
    doc.pre
    \o ( IF doc.form = "inline"
         THEN << <<"n", "a", "m", "e", "s", ":", " ", "[">> \o Join(doc.entries) \o <<"]", "\n">> >>
         ELSE << <<"n", "a", "m", "e", "s", ":", "\n">> >>
              \o [ i \in 1..Len(doc.entries) |->
                     IF doc.form = "dash"
                     THEN <<" ", " ", "-", " ">> \o doc.entries[i] \o <<"\n">>
                     ELSE <<" ", " ">> \o Str(i - 1) \o <<":", " ">> \o doc.entries[i] \o <<"\n">> ] )
    \o doc.post

\* what yaml.safe_load returns for the document: a mapping whose names field
\* holds the entries alone
ParsedOf(doc) ==
    Parsed("dict", IF doc.form = "map" THEN "dict" ELSE "list",
           [ i \in 1..Len(doc.entries) |->
               << <<(IF doc.form = "map" THEN "int" ELSE "pos"), i - 1>>, doc.entries[i] >> ])

DocFiles ==
    { ClassesFile("doc", TRUE, TRUE, d_yaml, TRUE, Render(d), ParsedOf(d)) : d \in YamlDocs }

ClassesFiles ==
    { NoPath, MissingFile, UnknownExt, TxtUnreadable, TxtNames, YamlUnreadable,
      YamlSyntaxError, YamlTopList, YamlEmpty, YamlNoNames, YamlScalarNames, YamlNames }

\* content of an output file that was there before the run
Pre == <<"*", <<>>>>

\* the contents with exactly one identifier: 0, 1 and 2
SingleContents ==
    { << <<"0", " ", "5", "\n">> >>,
      << <<"\n">>, <<" ", "1", "\t", "5">> >>,
      << <<"2", "\n">> >> }

\* the subsets of S with at most n elements
UpTo(S, n) == { T \in SUBSET S : Cardinality(T) <= n }

---------------------------------------------------------------------------
(* The functions of the program.                                           *)

IMG_EXTS == { <<".", "j", "p", "g">>, <<".", "j", "p", "e", "g">>,
              <<".", "p", "n", "g">>, <<".", "b", "m", "p">>,
              <<".", "t", "i", "f">>, <<".", "t", "i", "f", "f">> }

\* Python's None
None == <<>>

\* WalkMatches with the test of the extension left out
WalkMatchesAnyExt(base, tree) ==
    { f \in tree : SplitExt(f[2])[1] = base }

\* files of the tree that the recursive walk accepts for the base name
WalkMatches(base, tree) ==
    { f \in tree : SplitExt(f[2])[1] = base /\ Lower(SplitExt(f[2])[2]) \in IMG_EXTS }

\* find_image_for_label with the direct pass over the root left out and the
\* walk in any order
find_image_walk_only(label_path, tree) ==
    LET walk == WalkMatches(SplitExt(label_path[2])[1], tree) IN
    IF walk # {} THEN walk ELSE {None}

\* find_image_for_label: the set of results the call can return.  The
\* direct pass iterates a set of strings and the walk lists a directory in
\* the order the file system gives, so several results are possible; the
\* walk is top-down, the files of the root come before those of a folder.
find_image_for_label(label_path, tree) ==
    LET base   == SplitExt(label_path[2])[1]
        direct == { <<"", base \o ext>> : ext \in IMG_EXTS } \cap tree
        walk   == WalkMatches(base, tree)
        inroot == { f \in walk : f[1] = "" }
    IN IF direct # {} THEN direct
       ELSE IF inroot # {} THEN inroot
       ELSE IF walk # {} THEN walk
       ELSE {None}

\* parse_label_file: the first token of every non-blank line
RECURSIVE parse_label_file(_)
parse_label_file(ls) ==
    IF ls = <<>> THEN <<>>
    ELSE LET line == Strip(Head(ls)) IN
         IF line = <<>> THEN parse_label_file(Tail(ls))
         ELSE <<Split(line)[1]>> \o parse_label_file(Tail(ls))

\* the loop of copy_image_to: the first <name>_<i><ext> that does not exist
RECURSIVE FirstFree(_, _, _, _, _, _)
FirstFree(tree, split, cname, name, ext, i) ==
    LET cand == <<split, cname, name \o <<"_">> \o Str(i) \o ext>> IN
    IF cand \in DOMAIN tree
    THEN FirstFree(tree, split, cname, name, ext, i + 1)
    ELSE cand

\* DestPath with the test for an existing file left out
DestPathOverwrite(tree, split, cname, image_path) ==
    <<split, cname, image_path[2]>>

\* copy_image_to, lines 57-65: the destination path
DestPath(tree, split, cname, image_path) ==
    LET first == <<split, cname, image_path[2]>>
        ne    == SplitExt(image_path[2])
    IN IF first \in DOMAIN tree
       THEN FirstFree(tree, split, cname, ne[1], ne[2], 1)
       ELSE first

\* a dict, and the assignment d[k] = v
EmptyDict == [k \in {} |-> <<>>]

DictSet(d, k, v) == [x \in (DOMAIN d) \cup {k} |-> IF x = k THEN v ELSE d[x]]

\* {str(i): names[i] for i in range(len(names))}
DictOfList(names) ==
    [k \in { Str(i - 1) : i \in 1..Len(names) } |->
        names[CHOOSE i \in 1..Len(names) : Str(i - 1) = k]]

\* load_classes_from_txt: the non-empty stripped lines, by index
RECURSIVE StrippedNonEmpty(_)
StrippedNonEmpty(ls) ==
    IF ls = <<>> THEN <<>>
    ELSE LET s == Strip(Head(ls)) IN
         IF s = <<>> THEN StrippedNonEmpty(Tail(ls))
         ELSE <<s>> \o StrippedNonEmpty(Tail(ls))

load_classes_from_txt(ls) == DictOfList(StrippedNonEmpty(ls))

Quotes == {"'", "\""}

NamesKey == <<"n", "a", "m", "e", "s", ":">>

\* the items of an inline list: names: [a, b, c]
RECURSIVE InlineItems(_)
InlineItems(pieces) ==
    IF pieces = <<>> THEN <<>>
    ELSE IF Strip(Head(pieces)) = <<>> THEN InlineItems(Tail(pieces))
    ELSE <<StripChars(Strip(Head(pieces)), Quotes)>> \o InlineItems(Tail(pieces))

\* load_classes_from_yaml without PyYAML: the line loop of lines 119-159
RECURSIVE YamlFallback(_, _, _)
YamlFallback(ls, mapping, names_started) ==
    IF ls = <<>> THEN mapping
    ELSE
      LET line == Strip(RStripNewline(Head(ls))) IN
      IF line = <<>> THEN YamlFallback(Tail(ls), mapping, names_started)
      ELSE IF StartsWith(line, NamesKey)
      THEN LET rest == Strip(SubSeq(line, Len(NamesKey) + 1, Len(line))) IN
           IF StartsWith(rest, <<"[">>) /\ EndsWith(rest, <<"]">>)
           THEN DictOfList(InlineItems(SplitOn(SubSeq(rest, 2, Len(rest) - 1), ",")))
           ELSE YamlFallback(Tail(ls), mapping, TRUE)
      ELSE IF ~names_started THEN YamlFallback(Tail(ls), mapping, names_started)
      ELSE IF StartsWith(line, <<"-">>)
      THEN YamlFallback(Tail(ls),
               DictSet(mapping, Str(Cardinality(DOMAIN mapping)),
                       StripChars(Strip(SubSeq(line, 2, Len(line))), Quotes)),
               names_started)
      ELSE IF \E i \in 1..Len(line) : line[i] = ":"
      THEN LET kv  == SplitOnce(line, ":")
               key == Strip(kv[1])
               val == StripChars(Strip(kv[2]), Quotes)
           IN YamlFallback(Tail(ls),
                  IF key # <<>> THEN DictSet(mapping, key, val) ELSE mapping,
                  names_started)
      ELSE YamlFallback(Tail(ls), mapping, names_started)

\* str(k) of a key of the parsed document: <<"int", n>> or <<"str", s>>
KeyStr(k) == IF k[1] = "int" THEN Str(k[2]) ELSE k[2]

\* {str(k): v for k, v in names.items()}
RECURSIVE DictOfItems(_)
DictOfItems(items) ==
    IF items = <<>> THEN EmptyDict
    ELSE LET last == items[Len(items)] IN
         DictSet(DictOfItems(SubSeq(items, 1, Len(items) - 1)), KeyStr(last[1]), last[2])

\* load_classes_from_yaml with PyYAML, lines 106-116, on what safe_load returned
YamlParsed(parsed) ==
    IF parsed.names.tag = "dict" THEN DictOfItems(parsed.names.items)
    ELSE IF parsed.names.tag = "list"
    THEN DictOfList([i \in 1..Len(parsed.names.items) |-> parsed.names.items[i][2]])
    ELSE EmptyDict

\* whether lines 104-108 raise: safe_load rejects the text, or the document
\* is a non-empty list or scalar, which has no get
parsed_raises(parsed) == parsed.tag \in {"raise", "nodict"}

\* load_classes_from_yaml: [raised, value]
load_classes_from_yaml(file, with_yaml) ==
    IF ~file.readable THEN [raised |-> TRUE, value |-> EmptyDict]
    ELSE IF with_yaml
    THEN IF parsed_raises(file.parsed) THEN [raised |-> TRUE, value |-> EmptyDict]
         ELSE IF file.parsed.tag = "empty" THEN [raised |-> FALSE, value |-> EmptyDict]
         ELSE [raised |-> FALSE, value |-> YamlParsed(file.parsed)]
    ELSE [raised |-> FALSE, value |-> YamlFallback(file.lines, EmptyDict, FALSE)]

\* load_class_mapping with every extension but .yaml and .yml read as a
\* classes.txt
load_class_mapping_txt_default(file, with_yaml) ==
    LET ext == Lower(SplitExt(file.name)[2]) IN
    IF ~file.given THEN [map |-> EmptyDict, warned |-> FALSE]
    ELSE IF ~file.isfile THEN [map |-> EmptyDict, warned |-> TRUE]
    ELSE IF ext \in { <<".", "y", "a", "m", "l">>, <<".", "y", "m", "l">> }
    THEN LET r == load_classes_from_yaml(file, with_yaml) IN
         IF r.raised THEN [map |-> EmptyDict, warned |-> TRUE]
         ELSE IF r.value # EmptyDict THEN [map |-> r.value, warned |-> FALSE]
         ELSE [map |-> EmptyDict, warned |-> TRUE]
    ELSE IF ~file.readable THEN [map |-> EmptyDict, warned |-> TRUE]
    ELSE [map |-> load_classes_from_txt(file.lines), warned |-> FALSE]

\* load_class_mapping: [map, warned]
load_class_mapping(file, with_yaml) ==
    LET ext == Lower(SplitExt(file.name)[2]) IN
    IF ~file.given THEN [map |-> EmptyDict, warned |-> FALSE]
    ELSE IF ~file.isfile THEN [map |-> EmptyDict, warned |-> TRUE]
    ELSE IF ext = <<".", "t", "x", "t">>
    THEN IF ~file.readable THEN [map |-> EmptyDict, warned |-> TRUE]
         ELSE [map |-> load_classes_from_txt(file.lines), warned |-> FALSE]
    ELSE IF ext \in { <<".", "y", "a", "m", "l">>, <<".", "y", "m", "l">> }
    THEN LET r == load_classes_from_yaml(file, with_yaml) IN
         IF r.raised THEN [map |-> EmptyDict, warned |-> TRUE]
         ELSE IF r.value # EmptyDict THEN [map |-> r.value, warned |-> FALSE]
         ELSE [map |-> EmptyDict, warned |-> TRUE]
    ELSE [map |-> EmptyDict, warned |-> TRUE]

\* ClassName with the replacement of the spaces left out
ClassNameRaw(map, chosen) ==
    IF chosen \in DOMAIN map THEN map[chosen] ELSE chosen

\* Decide with the default of skipping multi-label files left out
DecideKeepFirst(ids, force) ==
    IF ids = <<>> THEN "empty" ELSE "keep"

\* main, lines 213-225: what becomes of a label file with these identifiers
Decide(ids, force) ==
    IF ids = <<>> THEN "empty"
    ELSE IF Len(ids) > 1 /\ ~force THEN "multi"
    ELSE "keep"

\* main, lines 233-238: the folder name of a chosen identifier
ClassName(map, chosen) ==
    Replace(IF chosen \in DOMAIN map THEN map[chosen] ELSE chosen, " ", "_")

\* int(len(imgs) * args.val_split)
NVal(n, num) == (n * num) \div ValDen

\* the sequences that list every element of the set S once
Orders(S) ==
    { p \in [1..Cardinality(S) -> S] : \A i, j \in 1..Cardinality(S) : p[i] = p[j] => i = j }

\* os.walk of a tree: the files of the root first, the files of one folder
\* together, otherwise in the order the file system gives
WalkOrders(S) ==
    { p \in Orders(S) :
        \A i, j \in 1..Len(p) :
            i < j =>
              /\ p[j][1] = "" => p[i][1] = ""
              /\ p[i][1] = p[j][1] => \A k \in i..j : p[k][1] = p[i][1] }

\* random.shuffle: any arrangement of the list
Shuffles(l) ==
    { [i \in 1..Len(l) |-> l[q[i]]] : q \in Orders(1..Len(l)) }

\* main, lines 244-246: the images of a class, in sample order
RECURSIVE ImagesOf(_, _)
ImagesOf(ss, cname) ==
    IF ss = <<>> THEN <<>>
    ELSE IF Head(ss)[2] = cname THEN <<Head(ss)[1]>> \o ImagesOf(Tail(ss), cname)
    ELSE ImagesOf(Tail(ss), cname)

\* the keys of by_class in insertion order
RECURSIVE KeysInOrder(_, _)
KeysInOrder(ss, seen) ==
    IF ss = <<>> THEN <<>>
    ELSE IF Head(ss)[2] \in seen THEN KeysInOrder(Tail(ss), seen)
    ELSE <<Head(ss)[2]>> \o KeysInOrder(Tail(ss), seen \cup {Head(ss)[2]})

---------------------------------------------------------------------------
(* The steps of main().                                                    *)

\* line 192
LoadClassMapping ==
    /\ pc = "load"
    /\ class_map' = load_class_mapping(classes, has_yaml).map
    /\ warned' = load_class_mapping(classes, has_yaml).warned
    /\ pc' = "scan"
    /\ UNCHANGED <<images, labels, classes, has_yaml, val_split, move, force_first,
                   out, out0, label_files, lf, lines, class_ids, img, samples,
                   skipped, multi, missing_image, by_class, class_order, ci,
                   train_imgs, val_imgs, todo, dest_path, placed, total_copied>>

\* lines 198-202
ScanLabels ==
    /\ pc = "scan"
    /\ \E order \in WalkOrders({ f \in labels :
                                   EndsWith(Lower(f[2]), <<".", "t", "x", "t">>) }) :
           label_files' = order
    /\ lf' = 1
    /\ pc' = "select"
    /\ UNCHANGED <<images, labels, classes, has_yaml, val_split, move, force_first,
                   out, out0, class_map, warned, lines, class_ids, img, samples,
                   skipped, multi, missing_image, by_class, class_order, ci,
                   train_imgs, val_imgs, todo, dest_path, placed, total_copied>>

\* lines 211-239: one pass of the selection loop.  A label file is read
\* once, here, so its content is drawn here, from the given contents.
SelectFrom(Contents) ==
    /\ pc = "select"
    /\ lf <= Len(label_files)
    /\ \E content \in Contents :
         LET ids == parse_label_file(content) IN
         /\ lines' = content
         /\ class_ids' = ids
         /\ IF Decide(ids, force_first) = "empty"
            THEN /\ skipped' = skipped + 1
                 /\ UNCHANGED <<multi, img, missing_image, samples>>
            ELSE IF Decide(ids, force_first) = "multi"
            THEN /\ multi' = multi + 1
                 /\ UNCHANGED <<skipped, img, missing_image, samples>>
            ELSE /\ multi' = IF Len(ids) > 1 THEN multi + 1 ELSE multi
                 /\ \E found \in find_image_for_label(label_files[lf], images) :
                      /\ img' = found
                      /\ IF found = None
                         THEN /\ missing_image' = missing_image + 1
                              /\ UNCHANGED samples
                         ELSE /\ samples' = Append(samples, <<found, ClassName(class_map, ids[1])>>)
                              /\ UNCHANGED missing_image
                 /\ UNCHANGED skipped
    /\ lf' = lf + 1
    /\ UNCHANGED <<pc, images, labels, classes, has_yaml, val_split, move, force_first,
                   out, out0, class_map, warned, label_files, by_class, class_order, ci,
                   train_imgs, val_imgs, todo, dest_path, placed, total_copied>>

\* the selection step over label files of any content
SelectSample == SelectFrom(LabelContents)

\* the selection step over label files that hold exactly one identifier
SelectSingle == SelectFrom(SingleContents)

\* lines 244-249
GroupByClass ==
    /\ pc = "select"
    /\ lf > Len(label_files)
    /\ by_class' = [c \in { samples[i][2] : i \in 1..Len(samples) } |-> ImagesOf(samples, c)]
    /\ class_order' = KeysInOrder(samples, {})
    /\ ci' = 1
    /\ pc' = "split"
    /\ UNCHANGED <<images, labels, classes, has_yaml, val_split, move, force_first,
                   out, out0, class_map, warned, label_files, lf, lines, class_ids, img,
                   samples, skipped, multi, missing_image,
                   train_imgs, val_imgs, todo, dest_path, placed, total_copied>>

\* lines 250-254: shuffle and cut the list of one class
SplitClass ==
    /\ pc = "split"
    /\ ci <= Len(class_order)
    /\ \E imgs \in Shuffles(by_class[class_order[ci]]) :
         LET n_val == NVal(Len(imgs), val_split) IN
         /\ by_class' = [by_class EXCEPT ![class_order[ci]] = imgs]
         /\ val_imgs' = SubSeq(imgs, 1, n_val)
         /\ train_imgs' = SubSeq(imgs, n_val + 1, Len(imgs))
         /\ todo' = [i \in 1..(Len(imgs) - n_val) |-> <<"train", imgs[n_val + i]>>]
                    \o [i \in 1..n_val |-> <<"val", imgs[i]>>]
    /\ pc' = "write"
    /\ UNCHANGED <<images, labels, classes, has_yaml, val_split, move, force_first,
                   out, out0, class_map, warned, label_files, lf, lines, class_ids, img,
                   samples, skipped, multi, missing_image, class_order, ci,
                   dest_path, placed, total_copied>>

\* lines 256-261 with copy_image_to: one image written
CopyImage ==
    /\ pc = "write"
    /\ todo # <<>>
    /\ Head(todo)[2] \in images
    /\ LET split == Head(todo)[1]
           im    == Head(todo)[2]
           cname == class_order[ci]
           dest  == DestPath(out, split, cname, im)
       IN /\ out' = DictSet(out, dest, im)
          /\ images' = IF move THEN images \ {im} ELSE images
          /\ dest_path' = dest
          /\ placed' = Append(placed, <<split, cname, im, dest[3]>>)
    /\ total_copied' = total_copied + 1
    /\ todo' = Tail(todo)
    /\ IF Tail(todo) = <<>>
       THEN pc' = "split" /\ ci' = ci + 1
       ELSE UNCHANGED <<pc, ci>>
    /\ UNCHANGED <<labels, classes, has_yaml, val_split, move, force_first,
                   out0, class_map, warned, label_files, lf, lines, class_ids, img,
                   samples, skipped, multi, missing_image, by_class, class_order,
                   train_imgs, val_imgs>>

\* lines 66-69 when the source file is no longer there: shutil.move and
\* shutil.copy2 raise FileNotFoundError, which nothing catches
CopyRaises ==
    /\ pc = "write"
    /\ todo # <<>>
    /\ Head(todo)[2] \notin images
    /\ pc' = "aborted"
    /\ UNCHANGED <<images, labels, classes, has_yaml, val_split, move, force_first,
                   out, out0, class_map, warned, label_files, lf, lines, class_ids, img,
                   samples, skipped, multi, missing_image, by_class, class_order, ci,
                   train_imgs, val_imgs, todo, dest_path, placed, total_copied>>

\* lines 263-272: the loop over the classes is over, the report is printed
Report ==
    /\ pc = "split"
    /\ ci > Len(class_order)
    /\ pc' = "done"
    /\ UNCHANGED <<images, labels, classes, has_yaml, val_split, move, force_first,
                   out, out0, class_map, warned, label_files, lf, lines, class_ids, img,
                   samples, skipped, multi, missing_image, by_class, class_order, ci,
                   train_imgs, val_imgs, todo, dest_path, placed, total_copied>>

Next ==
    \/ LoadClassMapping
    \/ ScanLabels
    \/ SelectSample
    \/ GroupByClass
    \/ SplitClass
    \/ CopyImage
    \/ CopyRaises
    \/ Report

\* the run over label files that all hold exactly one identifier
NextSingle ==
    \/ LoadClassMapping
    \/ ScanLabels
    \/ SelectSingle
    \/ GroupByClass
    \/ SplitClass
    \/ CopyImage
    \/ CopyRaises
    \/ Report

---------------------------------------------------------------------------
(* Specifications.                                                         *)

\* the state when main() is entered, the inputs drawn from the given sets
InitWith(ImageTrees, LabelTrees, Files, Yamls, Splits, Moves, Forces, OutTrees) ==
    /\ pc = "load"
    /\ images \in ImageTrees
    /\ labels \in LabelTrees
    /\ classes \in Files
    /\ has_yaml \in Yamls
    /\ val_split \in Splits
    /\ move \in Moves
    /\ force_first \in Forces
    /\ out \in { [d \in tree |-> Pre] : tree \in OutTrees }
    /\ out0 = out
    /\ class_map = EmptyDict
    /\ warned = FALSE
    /\ label_files = <<>>
    /\ lf = 1
    /\ lines = <<>>
    /\ class_ids = <<>>
    /\ img = None
    /\ samples = <<>>
    /\ skipped = 0
    /\ multi = 0
    /\ missing_image = 0
    /\ by_class = EmptyDict
    /\ class_order = <<>>
    /\ ci = 1
    /\ train_imgs = <<>>
    /\ val_imgs = <<>>
    /\ todo = <<>>
    /\ dest_path = None
    /\ placed = <<>>
    /\ total_copied = 0

ImageFiles ==
    { <<"a", photo_jpg>>, <<"b", photo_jpg>>, <<"", q_png>> }

LabelFiles ==
    { <<"a", photo_txt>>, <<"b", photo_txt>>, <<"a", q_TXT>> }

OutFiles ==
    { <<"train", cat, photo_jpg>>, <<"train", cat, photo_1_jpg>>, <<"val", cat, photo_jpg>> }

\* The write phase: same-named images and label files in different folders,
\* output trees that already hold files, both modes, every fraction.  A
\* label file that yields no sample adds nothing to the write phase, so the
\* label files here hold one identifier each.
InitWrite ==
    InitWith(UpTo(ImageFiles, MaxImages), UpTo(LabelFiles, MaxLabels), {NoPath, TxtNames},
             {FALSE}, 0..ValDen, BOOLEAN, {FALSE}, UpTo(OutFiles, MaxOut))

SpecWrite == InitWrite /\ [][NextSingle]_vars

LocateFiles ==
    { <<"", photo_jpg>>, <<"", photo_JPG>>, <<"a", photo_jpg>>, <<"a", photo_JPG>>,
      <<"b", photo_gif>>, <<"a", q_png>> }

ScanFiles ==
    { <<"a", photo_txt>>, <<"b", photo_txt>>, <<"", q_TXT>>, <<"", notes_md>> }

\* The selection phase: label files of every content, with and without
\* --force-first, images in the root and in folders, with upper-case and
\* unaccepted extensions.
Init ==
    InitWith(UpTo(LocateFiles, MaxImages), UpTo(ScanFiles, MaxScan), {NoPath, TxtNames},
             {FALSE}, {0}, BOOLEAN, BOOLEAN, {{}})

Spec == Init /\ [][Next]_vars

\* The class mapping: every kind of --classes argument, with and without
\* PyYAML, in a run over two label files that name the same image.
InitLoad ==
    InitWith({{<<"a", photo_jpg>>}}, {{<<"a", photo_txt>>, <<"b", photo_txt>>}},
             ClassesFiles \cup DocFiles, BOOLEAN, {0}, BOOLEAN, {FALSE}, {{}})

SpecLoad == InitLoad /\ [][NextSingle]_vars

---------------------------------------------------------------------------
(* Properties.  The notions they use are stated here from the text of the  *)
(* files, apart from the operators that model the code.                    *)

NonBlank(line) == \E i \in 1..Len(line) : line[i] \notin WS

\* the indices of the non-blank lines of a label file
NonBlankLines(content) == { i \in 1..Len(content) : NonBlank(content[i]) }

\* the first token of a non-blank line: its first maximal run of non-blanks
FirstToken(line) ==
    LET a == CHOOSE i \in 1..Len(line) :
                 line[i] \notin WS /\ \A j \in 1..(i - 1) : line[j] \in WS
        b == CHOOSE j \in a..Len(line) :
                 /\ \A k \in a..j : line[k] \notin WS
                 /\ (j = Len(line) \/ line[j + 1] \in WS)
    IN SubSeq(line, a, b)

\* the first token of the first non-blank line
FirstId(content) ==
    FirstToken(content[CHOOSE i \in NonBlankLines(content) :
                           \A j \in NonBlankLines(content) : i <= j])

\* x is name with every space replaced by an underscore
Underscored(name, x) ==
    /\ Len(x) = Len(name)
    /\ \A i \in 1..Len(name) : x[i] = (IF name[i] = " " THEN "_" ELSE name[i])

\* cname is the folder name that the mapping gives the identifier id
Resolves(map, id, cname) ==
    IF id \in DOMAIN map THEN Underscored(map[id], cname) ELSE cname = id

\* a step of the selection loop, and one in which the image is looked up
SelectStep == pc = "select" /\ lf' = lf + 1

LookupStep ==
    /\ SelectStep
    /\ \/ Cardinality(NonBlankLines(lines')) = 1
       \/ Cardinality(NonBlankLines(lines')) >= 2 /\ force_first

\* a step in which copy_image_to wrote a file
CopyStep == total_copied' = total_copied + 1

\* the base name of a label file: its name without the four characters .txt
BaseOf(label) == SubSeq(label[2], 1, Len(label[2]) - 4)

\* the file f is named base plus an accepted extension, in any letter case
Accepted(base, f) ==
    \E e \in IMG_EXTS :
        /\ Len(f[2]) = Len(base) + Len(e)
        /\ SubSeq(f[2], 1, Len(base)) = base
        /\ \A i \in 1..Len(e) : LowerChar(f[2][Len(base) + i]) = e[i]

\* the file f is named base plus an accepted lower-case extension, in the root
RootDirect(base, f) ==
    f[1] = "" /\ \E e \in IMG_EXTS : f[2] = base \o e

IsNumeric(x) ==
    x # <<>> /\ \A i \in 1..Len(x) : x[i] \in {"0", "1", "2", "3", "4", "5", "6", "7", "8", "9"}

Range(q) == { q[i] : i \in 1..Len(q) }

\* C1: every copy_image_to call writes to a path that did not exist before
\* the call, named like the source if that name is free and otherwise
\* <name>_<i><ext> for the first free i >= 1; no file of the output tree,
\* old or written in this run, is ever replaced, and every write adds a file.
C1_NoOverwrite ==
    [][ /\ \A d \in DOMAIN out : d \in DOMAIN out' /\ out'[d] = out[d]
        /\ Cardinality(DOMAIN out') = Cardinality(DOMAIN out0') + total_copied'
        /\ CopyStep =>
             LET src  == Head(todo)[2]
                 dir  == <<Head(todo)[1], class_order[ci]>>
                 name == SubSeq(src[2], 1, Len(src[2]) - 4)
                 ext  == SubSeq(src[2], Len(src[2]) - 3, Len(src[2]))
                 Nth(i) == <<dir[1], dir[2], name \o <<"_">> \o Str(i) \o ext>>
             IN /\ dest_path' \notin DOMAIN out
                /\ DOMAIN out' = DOMAIN out \cup {dest_path'}
                /\ out'[dest_path'] = src
                /\ IF <<dir[1], dir[2], src[2]>> \notin DOMAIN out
                   THEN dest_path' = <<dir[1], dir[2], src[2]>>
                   ELSE \E i \in 1..(Cardinality(DOMAIN out) + 1) :
                          /\ dest_path' = Nth(i)
                          /\ \A j \in 1..(i - 1) : Nth(j) \in DOMAIN out
      ]_vars

\* C1 witness: in move mode an image named photo.jpg met a photo.jpg that
\* was in train/cat before the run and was written as photo_1.jpg
C1_Witness ==
    /\ move
    /\ dest_path = <<"train", cat, photo_1_jpg>>
    /\ <<"train", cat, photo_jpg>> \in DOMAIN out0

\* C2: while a class is written, val holds exactly floor(n*f) of its n
\* samples and train the other n - floor(n*f), train and val together are
\* the samples of the class, and no image is in both train and val.
C2_SplitSizes ==
    pc = "write" =>
        LET imgs == by_class[class_order[ci]]
            n    == Len(imgs)
            k    == CHOOSE x \in 0..n :
                        x * ValDen <= n * val_split /\ n * val_split < (x + 1) * ValDen
        IN /\ Len(val_imgs) = k
           /\ Len(train_imgs) = n - k
           /\ val_imgs \o train_imgs = imgs
           /\ Range(train_imgs) \cap Range(val_imgs) = {}

\* C3: a label file with no identifier is discarded and only the empty-skip
\* counter moves, by one; with one identifier that identifier is chosen;
\* with two or more no sample is produced unless --force-first is set, and
\* then the identifier is the first token of the first non-blank line.
C3_Selector ==
    [][ SelectStep =>
          LET n == Cardinality(NonBlankLines(lines'))
              kept == /\ class_ids'[1] = FirstId(lines')
                      /\ skipped' = skipped
                      /\ \/ /\ img' = None
                            /\ samples' = samples
                         \/ /\ img' # None
                            /\ Len(samples') = Len(samples) + 1
                            /\ SubSeq(samples', 1, Len(samples)) = samples
                            /\ samples'[Len(samples')][1] = img'
                            /\ Resolves(class_map, FirstId(lines'), samples'[Len(samples')][2])
          IN /\ n = 0 => /\ skipped' = skipped + 1
                         /\ multi' = multi
                         /\ missing_image' = missing_image
                         /\ samples' = samples
             /\ n = 1 => class_ids' = <<FirstId(lines')>> /\ kept
             /\ (n >= 2 /\ ~force_first) =>
                         /\ samples' = samples
                         /\ skipped' = skipped
                         /\ missing_image' = missing_image
             /\ (n >= 2 /\ force_first) => kept
      ]_vars

\* C3 witness: with --force-first a file with two identifiers, 1 before 0,
\* gave the first sample, of the class of 1
C3_Witness ==
    /\ force_first
    /\ pc = "select"
    /\ lf = 2
    /\ class_ids = << <<"1">>, <<"0">> >>
    /\ Len(samples) = 1
    /\ samples[1][2] \in { <<"1">>, <<"b", "i", "g", "_", "d", "o", "g">> }

\* C4: the class folder of every sample is the mapped name of its identifier
\* with the spaces replaced by underscores, or the identifier itself when
\* the mapping does not hold it, and every image is written below
\* <split>/<class folder of its sample>/.
C4_ClassFolder ==
    [][ /\ (SelectStep /\ samples' # samples) =>
             /\ samples'[Len(samples')][1] = img'
             /\ Resolves(class_map, FirstId(lines'), samples'[Len(samples')][2])
        /\ CopyStep =>
             /\ dest_path'[1] = Head(todo)[1]
             /\ \E i \in 1..Len(samples) : samples[i] = <<Head(todo)[2], dest_path'[2]>>
             /\ dest_path' \in DOMAIN out'
             /\ out'[dest_path'] = Head(todo)[2]
      ]_vars

\* C4 witness: with a mapping that knows 0 and 1, one image went to the
\* folder big_dog and one to the folder 2
C4_Witness ==
    /\ class_map # EmptyDict
    /\ \E i, j \in 1..Len(placed) :
         /\ placed[i][2] = <<"b", "i", "g", "_", "d", "o", "g">>
         /\ placed[j][2] = <<"2">>

\* C5: when a/photo.jpg and b/photo.jpg are labelled by a/photo.txt and
\* b/photo.txt, both of class cat and both in train, a complete run into an
\* empty output tree leaves train/cat/photo.jpg and train/cat/photo_1.jpg,
\* one from each of the two images.
C5_BothImages ==
    ( /\ pc = "done"
      /\ out0 = EmptyDict
      /\ val_split = 0
      /\ labels = { <<"a", photo_txt>>, <<"b", photo_txt>> }
      /\ { <<"a", photo_jpg>>, <<"b", photo_jpg>> } \subseteq images
      /\ Len(samples) = 2
      /\ samples[1][2] = cat /\ samples[2][2] = cat )
    => /\ DOMAIN out = { <<"train", cat, photo_jpg>>, <<"train", cat, photo_1_jpg>> }
       /\ { out[d] : d \in DOMAIN out } = { <<"a", photo_jpg>>, <<"b", photo_jpg>> }

\* C6: a looked-up label file whose image is nowhere in the images tree is
\* dropped, the missing-image counter moves by one, the output tree stays as
\* it is and the loop goes on; the multi-label counter moves by one for
\* every label file with two or more identifiers, found or not, and at no
\* other step; what is written is the image of a sample.
C6_MissingImage ==
    [][ /\ SelectStep =>
             /\ multi' = multi + (IF Cardinality(NonBlankLines(lines')) >= 2 THEN 1 ELSE 0)
             /\ (LookupStep /\ ~\E f \in images : Accepted(BaseOf(label_files[lf]), f)) =>
                    /\ missing_image' = missing_image + 1
                    /\ samples' = samples
                    /\ out' = out
                    /\ pc' = "select"
        /\ ~SelectStep => multi' = multi /\ missing_image' = missing_image
        /\ CopyStep => \E i \in 1..Len(samples) : samples[i][1] = out'[dest_path']
      ]_vars

\* C6 witness: with --force-first a file with two identifiers had no image
C6_Witness ==
    /\ force_first
    /\ lf = 2
    /\ Len(class_ids) = 2
    /\ multi = 1
    /\ missing_image = 1

C8_FallbackAgrees ==
    (pc # "load" /\ classes.kind = "doc" /\ ~has_yaml)
    => class_map = YamlParsed(classes.parsed)

\* C9: when the root holds <base><ext> with an accepted lower-case
\* extension the locator returns such a file of the root; otherwise it
\* returns a file named base plus an accepted extension in any letter case;
\* it returns None exactly when the tree holds no such file, and the loop
\* then skips the label file and goes on.
C9_Locator ==
    [][ LookupStep =>
          LET base == BaseOf(label_files[lf]) IN
          /\ (\E f \in images : RootDirect(base, f)) =>
                (img' \in images /\ RootDirect(base, img'))
          /\ img' # None => (img' \in images /\ Accepted(base, img'))
          /\ img' = None <=> ~\E f \in images : Accepted(base, f)
          /\ img' = None =>
                /\ pc' = "select"
                /\ samples' = samples
                /\ missing_image' = missing_image + 1
      ]_vars

\* C9 witness: photo.jpg lies in the root and in the folder a, and the
\* file of the root was returned
C9_Witness ==
    /\ img = <<"", photo_jpg>>
    /\ <<"a", photo_jpg>> \in images
    /\ Len(samples) >= 1

\* C10: the write phase never aborts, in move mode as in copy mode, and at
\* the end total_copied is the number of samples, each written once.
C10_WritesAll ==
    /\ pc # "aborted"
    /\ pc = "done" => (total_copied = Len(samples) /\ Len(placed) = Len(samples))

=============================================================================
